---- MODULE Spec2Model ----
(***************************************************************************)
(* Model of rebound/simulation_archive.py: the SimulationArchive class, a  *)
(* random-access reader over a binary file of periodic checkpoints         *)
(* ("blobs").  Times are integers (ticks); the integrator step dt and the  *)
(* checkpoint interval are whole numbers of ticks, so a requested time may *)
(* fall between two steps.                                                 *)
(*                                                                         *)
(* The native engine (clibrebound, Simulation.integrate) is not part of    *)
(* the Python sources; its primitives are modelled from the specification  *)
(* (section 6, External Interfaces) and are grouped under "Engine".        *)
(***************************************************************************)
EXTENDS Integers, Sequences, FiniteSets, TLC

(***************************************************************************)
(* Bounds of the model.                                                    *)
(***************************************************************************)
MaxBlobs == 2       \* at most this many checkpoint records in the file
MaxDt == 2          \* step size dt ranges over 1..MaxDt
MaxInterval == 3    \* checkpoint interval ranges over dt..MaxInterval
MaxBatch == 2       \* getSimulations is given at most this many times
SeekBlob == 2       \* byte stride of one checkpoint record
SeekFirst == 1      \* byte offset of the first checkpoint record
Slack == 1          \* bytes of an unfinished record at the end of the file
WallPerStep == 1    \* wall-clock ticks one integrator step takes

VARIABLES
    file,   \* the binary file on disk (read-only): header values and records
    sa,     \* the SimulationArchive object (self)
    sim,    \* the one Simulation handle, self.simp.contents
    gen,    \* the generator object returned by getSimulations, if any
    last    \* what the last operation did: its arguments, outcome and engine calls

vars == <<file, sa, sim, gen, last>>

(***************************************************************************)
(* Small helpers.                                                          *)
(***************************************************************************)
Max(a, b) == IF a >= b THEN a ELSE b

Min(a, b) == IF a <= b THEN a ELSE b

\* Python's int(x / y) for y > 0: truncation toward zero.
IntDiv(x, y) == IF x >= 0 THEN x \div y ELSE -((-x) \div y)

\* Smallest k >= 0 with from + k*step >= to (number of whole steps to reach `to`).
StepsToReach(from, to, step) ==
    IF from >= to THEN 0 ELSE ((to - from) + step - 1) \div step

\* list.sort(): ascending insertion sort.
RECURSIVE Insert(_, _)
Insert(x, s) ==
    IF s = <<>> THEN <<x>>
    ELSE IF x <= Head(s) THEN <<x>> \o s
    ELSE <<Head(s)>> \o Insert(x, Tail(s))

RECURSIVE Sort(_)
Sort(s) == IF s = <<>> THEN <<>> ELSE Insert(Head(s), Sort(Tail(s)))

Modes == {"blob", "close", "exact"}
BadModes == {"Exact", "bogus"}

(***************************************************************************)
(* The file.  Record i sits at byte seek_first + i*seek_blob and was       *)
(* written at time trueTime[i]: a step boundary (a multiple of dt) at most *)
(* one step away from its nominal time interval*i.  The run starts at      *)
(* t = 0, where record 0 is written.  A record may be corrupt.  keep0 is   *)
(* the value of ri_whfast.keep_unsynchronized stored in the file.          *)
(***************************************************************************)
NearGrid(dt, nominal) ==
    {g \in Max(0, nominal - dt) .. (nominal + dt) : g % dt = 0}

TrueTimes(dt, interval, nrec) ==
    {tt \in [0 .. nrec - 1 -> 0 .. (interval * nrec + dt)] :
        /\ \A i \in 0 .. nrec - 1 : tt[i] \in NearGrid(dt, interval * i)
        /\ nrec > 0 => tt[0] = 0
        /\ \A i \in 1 .. nrec - 1 : tt[i - 1] < tt[i]}

\* Number of complete records in the file.
NRecords(f) == (f.filesize - f.seek_first) \div f.seek_blob

(***************************************************************************)
(* Engine: the primitives of the native library, from the specification.   *)
(* A handle holds the time t, the step dt, the header values, the flag     *)
(* ri_whfast.keep_unsynchronized, the forces-callback slot                 *)
(* (additional_forces, 0 = none), the auto-write target                    *)
(* (simulationarchive_filename, 0 = cleared), the cumulative wall-clock     *)
(* runtime (simulationarchive_walltime) and the integrated state:          *)
(*   rep  - "internal": the integrator's unsynchronized representation,    *)
(*          "kept": synchronized, the internal representation retained,    *)
(*          "converted": synchronized, the internal representation gone;   *)
(*   traj - "archived" while the state is, bit for bit, the state the      *)
(*          archived run had at time t, "deviated" once it is not.         *)
(***************************************************************************)
\* create(): an empty handle at time 0.
reb_create_simulation ==
    [t |-> 0, dt |-> 0,
     simulationarchive_interval |-> 0,
     simulationarchive_seek_first |-> 0,
     simulationarchive_seek_blob |-> 0,
     keep_unsynchronized |-> 0,
     additional_forces |-> 0,
     simulationarchive_filename |-> 0,
     simulationarchive_walltime |-> 0,
     rep |-> "internal", traj |-> "archived"]

\* createFromBinaryWithMessages on a created handle: the state the archived
\* run started from, at time 0, with the header values of the file.
reb_create_simulation_from_binary(f) ==
    [t |-> 0, dt |-> f.dt,
     simulationarchive_interval |-> f.interval,
     simulationarchive_seek_first |-> f.seek_first,
     simulationarchive_seek_blob |-> f.seek_blob,
     keep_unsynchronized |-> f.keep0,
     additional_forces |-> 0,
     simulationarchive_filename |-> 1,
     simulationarchive_walltime |-> 0,
     rep |-> "internal", traj |-> "archived"]

\* Status of loadBlob: 0 on success, nonzero for a record that is not (wholly)
\* in the file (bad offset, truncated file) or is corrupt.
reb_load_status(f, blob) ==
    IF blob < 0 \/ blob >= NRecords(f) THEN 2
    ELSE IF blob \in f.corrupt THEN 1
    ELSE 0

\* The wall-clock runtime recorded in a checkpoint: that of the steps taken
\* up to its true time.
RecordedWalltime(f, blob) == (f.trueTime[blob] \div f.dt) * WallPerStep

\* loadBlob(handle, path, index): overwrites the handle in place on success.
\* Neither the forces callback nor a cleared auto-write target survives it.
reb_simulationarchive_load_blob(f, s, blob) ==
    IF reb_load_status(f, blob) # 0 THEN [retv |-> reb_load_status(f, blob), sim |-> s]
    ELSE [retv |-> 0,
          sim |-> [s EXCEPT !.t = f.trueTime[blob],
                            !.keep_unsynchronized = f.keep0,
                            !.additional_forces = 0,
                            !.simulationarchive_filename = 1,
                            !.simulationarchive_walltime = RecordedWalltime(f, blob),
                            !.rep = "internal",
                            !.traj = "archived"]]

\* synchronize(handle): user-observable coordinates; the internal representation
\* is retained only when the keep-unsynchronized flag is 1.
integrator_synchronize(s) ==
    [s EXCEPT !.rep = IF s.keep_unsynchronized = 1 THEN "kept" ELSE "converted"]

\* integrate(handle, t, exactFinishTime): whole steps of dt until the time is at
\* least t; with exactFinishTime the last step is shortened to land on t.  A
\* step taken from converted coordinates, or a shortened step, leaves the
\* archived trajectory.  The recorded wall-clock runtime is brought up to date
\* only when a checkpoint is written, so it stays as it is.  The handle is
\* synchronized on return.
integrate(s, t, exact_finish_time) ==
    LET n == StepsToReach(s.t, t, s.dt)
        end == s.t + n * s.dt
        landed == IF exact_finish_time = 1 /\ end > t THEN t ELSE end
        off == n > 0 /\ (s.rep = "converted" \/ landed # end)
    IN integrator_synchronize(
         [s EXCEPT !.t = landed,
                   !.traj = IF off THEN "deviated" ELSE s.traj])

(***************************************************************************)
(* Outcomes.  Every method is an operator from the archive a, the file f,  *)
(* the handle s and its arguments to an outcome: the handle afterwards,    *)
(* the exception raised ("none" when it returns) and the engine calls it   *)
(* made: the indices passed to the load primitive, whether synchronize was *)
(* called, and the handle each integration started from.  Exceptions carry *)
(* the names of the specification's taxonomy:                              *)
(*   ValueError on a time or an index (lines 112, 59 as IndexError)        *)
(*                                                   - RangeError          *)
(*   ValueError with the engine's code (67, 140)     - LoadError           *)
(*   AttributeError on mode, slice or key type       - ConfigError         *)
(*   AttributeError "Cannot modify"                  - ReadOnlyError       *)
(* Line 98 is written to raise a ValueError (FormatError), but the name    *)
(* BINARY_WARNINGS in its argument is neither defined nor imported, so     *)
(* what it raises is NameError.  ZeroDivisionError keeps its name.         *)
(***************************************************************************)
Returns(s, loads, synced, integ) ==
    [sim |-> s, exc |-> "none", code |-> 0,
     loads |-> loads, synced |-> synced, integ |-> integ]

Raise(s, exc, code, loads) ==
    [sim |-> s, exc |-> exc, code |-> code,
     loads |-> loads, synced |-> FALSE, integ |-> <<>>]

(***************************************************************************)
(* class SimulationArchive                                                 *)
(***************************************************************************)
\* __len__
len(a) == a.Nblob

\* Variant: only a negative status counts as a failure.
LoadFailedIfNegative(retv) == retv < 0

\* `if retv:` after the load primitive (lines 66 and 139)
LoadFailed(retv) == retv # 0

\* loadFromBlobAndSynchronize(self, blob, keep_unsynchronized=1)
loadFromBlobAndSynchronize(a, f, s, blob, keep_unsynchronized) ==
    LET r == reb_simulationarchive_load_blob(f, s, blob)
        s1 == [r.sim EXCEPT !.keep_unsynchronized = keep_unsynchronized]
        s2 == IF a.additional_forces # 0
              THEN [s1 EXCEPT !.additional_forces = a.additional_forces]
              ELSE s1
        s3 == [s2 EXCEPT !.simulationarchive_filename = 0]
    IN IF LoadFailed(r.retv)
       THEN Raise(r.sim, "LoadError", r.retv, <<blob>>)
       ELSE Returns(integrator_synchronize(s3), <<blob>>, TRUE, <<>>)

\* key += len(self) for a negative key
WrapKey(a, key) == IF key < 0 THEN key + len(a) ELSE key

\* the test that raises IndexError
KeyOutOfRange(a, key) == key >= len(a)

\* __getitem__(self, key); key is [kind, val], kind "int", "slice" or "other"
getitem(a, f, s, key) ==
    IF key.kind = "slice" THEN Raise(s, "ConfigError", 0, <<>>)
    ELSE IF key.kind # "int" THEN Raise(s, "ConfigError", 0, <<>>)
    ELSE IF KeyOutOfRange(a, WrapKey(a, key.val)) THEN Raise(s, "RangeError", 0, <<>>)
    ELSE loadFromBlobAndSynchronize(a, f, s, WrapKey(a, key.val), 1)

\* __setitem__(self, key, value)
setitem(a, f, s, key) == Raise(s, "ReadOnlyError", 0, <<>>)

\* __delitem__(self, key): pass
delitem(a, f, s, key) == Returns(s, <<>>, FALSE, <<>>)

\* Variant: the lower bound is not tested.
OutsideBaselineNoLower(a, t) == t > a.tmax + a.dt

\* the range test of getBlobJustBefore
OutsideBaseline(a, t) == t > a.tmax + a.dt \/ t < a.tmin

\* Variant: the step is not subtracted.
BlobIndexNoDt(a, t) == Max(0, (t - a.tmin) \div a.interval)

\* Variant: the step is added instead of subtracted.
BlobIndexPlusDt(a, t) == Max(0, (t + a.dt - a.tmin) \div a.interval)

\* bi = max(0, int(math.floor((t - self.dt - self.tmin) / self.interval)))
BlobIndex(a, t) == Max(0, (t - a.dt - a.tmin) \div a.interval)

\* getBlobJustBefore(self, t)
getBlobJustBefore(a, t) ==
    IF OutsideBaseline(a, t) THEN [exc |-> "RangeError", bi |-> 0, bt |-> 0]
    ELSE [exc |-> "none", bi |-> BlobIndex(a, t),
          bt |-> a.tmin + a.interval * BlobIndex(a, t)]

\* Variant: the mode is compared without regard to case.
ModeKnownAnyCase(mode) == mode \in {"blob", "close", "exact", "Exact"}

\* mode in ['blob', 'close', 'exact']
ModeKnown(mode) == mode \in {"blob", "close", "exact"}

\* Variant: the handle's time is not compared with the requested time.
ReuseCurrentAnyTime(s, t, bt) ==
    bt - s.dt < s.t /\ s.keep_unsynchronized = 1

\* Variant: the handle's time is not compared with the checkpoint's time.
ReuseCurrentAnyBlob(s, t, bt) ==
    s.t < t /\ s.keep_unsynchronized = 1

\* "Reuse current simulation": the test of line 132
ReuseCurrent(s, t, bt) ==
    s.t < t /\ bt - s.dt < s.t /\ s.keep_unsynchronized = 1

\* lines 142-143: `keep_unsynchronized==0` is a comparison whose value is
\* dropped, so the argument is passed on as it came
KeepForMode(mode, keep_unsynchronized) == keep_unsynchronized

\* Variant: the mode is misspelt in the comparison.
ExactFinishTimeMisspelt(mode) == IF mode = "Exact" THEN 1 ELSE 0

\* exact_finish_time = 1 if mode=='exact' else 0
ExactFinishTime(mode) == IF mode = "exact" THEN 1 ELSE 0

\* Variant: the auto-write target and the forces are left as the load left them.
AdvanceAsLoaded(a, s, t, mode, keep_unsynchronized, loads) ==
    LET s1 == [s EXCEPT !.keep_unsynchronized = keep_unsynchronized]
    IN Returns(integrate(s1, t, ExactFinishTime(mode)), loads, FALSE,
              <<[t |-> s1.t,
                 additional_forces |-> s1.additional_forces,
                 simulationarchive_filename |-> s1.simulationarchive_filename,
                 exact_finish_time |-> ExactFinishTime(mode)]>>)

\* lines 142-151: set the flag, re-attach the forces, clear the auto-write
\* target and integrate
Advance(a, s, t, mode, keep_unsynchronized, loads) ==
    LET s1 == [s EXCEPT !.keep_unsynchronized = KeepForMode(mode, keep_unsynchronized)]
        s2 == IF a.additional_forces # 0
              THEN [s1 EXCEPT !.additional_forces = a.additional_forces]
              ELSE s1
        s3 == [s2 EXCEPT !.simulationarchive_filename = 0]
    IN Returns(integrate(s3, t, ExactFinishTime(mode)), loads, FALSE,
              <<[t |-> s3.t,
                 additional_forces |-> s3.additional_forces,
                 simulationarchive_filename |-> s3.simulationarchive_filename,
                 exact_finish_time |-> ExactFinishTime(mode)]>>)

\* getSimulation(self, t, mode='blob', keep_unsynchronized=1)
getSimulation(a, f, s, t, mode, keep_unsynchronized) ==
    IF ~ModeKnown(mode) THEN Raise(s, "ConfigError", 0, <<>>)
    ELSE LET b == getBlobJustBefore(a, t) IN
      IF b.exc # "none" THEN Raise(s, b.exc, 0, <<>>)
      ELSE IF mode = "blob"
      THEN loadFromBlobAndSynchronize(a, f, s, b.bi, keep_unsynchronized)
      ELSE IF ReuseCurrent(s, t, b.bt)
      THEN Advance(a, s, t, mode, keep_unsynchronized, <<>>)
      ELSE LET r == reb_simulationarchive_load_blob(f, s, b.bi) IN
        IF LoadFailed(r.retv) THEN Raise(r.sim, "LoadError", r.retv, <<b.bi>>)
        ELSE Advance(a, r.sim, t, mode, keep_unsynchronized, <<b.bi>>)

\* __init__(self, filename, additional_forces=None); additional_forces 0 is None
\* self.speed, while the attribute does not exist
NoSpeed == [known |-> FALSE, t |-> 0, walltime |-> 0]

NoArchive ==
    [state |-> "none", additional_forces |-> 0, filesize |-> 0, dt |-> 0,
     interval |-> 0, tmin |-> 0, Nblob |-> 0, tmax |-> 0, speed |-> NoSpeed]

\* (simp is None) or (w.value & 1)
MajorError(w) == w % 2 = 1

\* w is the warning bitmask the engine reports while it reads the file.  On a
\* major error evaluating BINARY_WARNINGS[0] raises NameError; self.simp is
\* not assigned, so the archive has no handle but the created one.
init(f, additional_forces, w) ==
    LET s == reb_create_simulation_from_binary(f)
        Nblob == IntDiv(f.filesize - s.simulationarchive_seek_first,
                        s.simulationarchive_seek_blob)
    IN IF MajorError(w)
       THEN [exc |-> "NameError", sim |-> reb_create_simulation,
             sa |-> [NoArchive EXCEPT !.state = "failed",
                                      !.additional_forces = additional_forces]]
       ELSE [exc |-> "none", sim |-> s,
             sa |-> [state |-> "open",
                     additional_forces |-> additional_forces,
                     filesize |-> f.filesize,
                     dt |-> s.dt,
                     interval |-> s.simulationarchive_interval,
                     tmin |-> 0,
                     Nblob |-> Nblob,
                     tmax |-> 0 + s.simulationarchive_interval * (Nblob + 1),
                     speed |-> NoSpeed]]

(***************************************************************************)
(* estimateTime.  The speed is the quotient t / walltime of two values of  *)
(* the final checkpoint and is kept as that pair; an estimate x / speed is *)
(* the fraction (x * walltime) / t, kept as numerator num and denominator  *)
(* den.  Dividing by a zero walltime, or by a zero speed, raises           *)
(* ZeroDivisionError.                                                      *)
(***************************************************************************)
Estimated(a, s, loads, num, den) ==
    [sa |-> a, sim |-> s, exc |-> "none", code |-> 0, loads |-> loads,
     num |-> num, den |-> den]

EstimateFailed(a, s, exc, code, loads) ==
    [sa |-> a, sim |-> s, exc |-> exc, code |-> code, loads |-> loads,
     num |-> 0, den |-> 0]

\* Variant: the cached speed is never found.
HasSpeedNever(a) == FALSE

\* try: speed = self.speed
HasSpeed(a) == a.speed.known

\* Variant: the speed is not stored.
CacheSpeedNot(a, speed) == a

\* self.speed = speed
CacheSpeed(a, speed) == [a EXCEPT !.speed = speed]

\* lines 205-207: the speed from the handle r.sim that self[-1] returned
speedOf(a, r) ==
    IF r.exc # "none" THEN EstimateFailed(a, r.sim, r.exc, r.code, r.loads)
    ELSE IF r.sim.simulationarchive_walltime = 0
    THEN EstimateFailed(a, r.sim, "ZeroDivisionError", 0, r.loads)
    ELSE EstimateFailed(
           CacheSpeed(a, [known |-> TRUE, t |-> r.sim.t,
                          walltime |-> r.sim.simulationarchive_walltime]),
           r.sim, "none", 0, r.loads)

\* lines 200-207: the cached speed, or the speed of the final checkpoint
averageSpeed(a, f, s) ==
    IF HasSpeed(a) THEN EstimateFailed(a, s, "none", 0, <<>>)
    ELSE speedOf(a, getitem(a, f, s, [kind |-> "int", val |-> 0 - 1]))

\* Variant: the larger of the two estimates is taken.
LargerEstimate(x, y) == Max(x, y)

\* min((t-bt)/speed, (t-tbefore)/speed), both over the same denominator
SmallerEstimate(x, y) == Min(x, y)

\* lines 209-212, with the outcome sp of the speed lookup and the outcome b
\* of getBlobJustBefore
estimateFrom(sp, b, t, tbefore) ==
    IF sp.exc # "none" THEN sp
    ELSE IF b.exc # "none" THEN EstimateFailed(sp.sa, sp.sim, b.exc, 0, sp.loads)
    ELSE IF sp.sa.speed.t = 0
    THEN EstimateFailed(sp.sa, sp.sim, "ZeroDivisionError", 0, sp.loads)
    ELSE Estimated(sp.sa, sp.sim, sp.loads,
           IF tbefore = <<>>
           THEN (t - b.bt) * sp.sa.speed.walltime
           ELSE SmallerEstimate((t - b.bt) * sp.sa.speed.walltime,
                                (t - tbefore[1]) * sp.sa.speed.walltime),
           sp.sa.speed.t)

\* estimateTime(self, t, tbefore=None) for a number t; tbefore is <<>> for
\* None and <<x>> for the time x
estimateTime(a, f, s, t, tbefore) ==
    estimateFrom(averageSpeed(a, f, s), getBlobJustBefore(a, t), t, tbefore)

\* lines 194-196: the loop over the sorted times; an exception ends it
RECURSIVE estimateEach(_, _, _, _, _, _)
\* lines 195-196: r is the outcome of the scalar estimate for Head(times)
estimateNext(r, f, times, runtime_estimate, loads) ==
    IF r.exc # "none"
    THEN EstimateFailed(r.sa, r.sim, r.exc, r.code, loads \o r.loads)
    ELSE estimateEach(r, f, Tail(times), Head(times),
                      runtime_estimate + r.num, loads \o r.loads)

\* c holds the archive and the handle as the estimates so far left them
estimateEach(c, f, times, tbefore, runtime_estimate, loads) ==
    IF times = <<>>
    THEN Estimated(c.sa, c.sim, loads, runtime_estimate,
                   IF c.sa.speed.known THEN c.sa.speed.t ELSE 1)
    ELSE estimateNext(estimateTime(c.sa, f, c.sim, Head(times), <<tbefore>>),
                      f, times, runtime_estimate, loads)

\* estimateTime(self, t) for a list t: t.sort(), tbefore = 0.
estimateTimes(a, f, s, times) ==
    estimateEach([sa |-> a, sim |-> s], f, Sort(times), 0, 0, <<>>)

(***************************************************************************)
(* The state machine.                                                      *)
(***************************************************************************)
NoGen == [state |-> "none", kind |-> "", times |-> <<>>, pos |-> 0,
          mode |-> "blob", keep |-> 0, pure |-> FALSE]

NoCall == [op |-> "none", arg |-> 0, mode |-> "", keep |-> 0,
           exc |-> "none", code |-> 0, loads |-> <<>>,
           synced |-> FALSE, integ |-> <<>>,
           times |-> <<>>, num |-> 0, den |-> 0]

\* The record of a call: the method, its arguments (arg is the key or the
\* time, mode the mode or the kind of key) and the outcome without the handle.
Call(op, arg, mode, keep, r) ==
    [NoCall EXCEPT !.op = op, !.arg = arg, !.mode = mode, !.keep = keep,
                   !.exc = r.exc, !.code = r.code, !.loads = r.loads,
                   !.synced = r.synced, !.integ = r.integ]

\* The record of an estimateTime call: mode is "scalar" or "batch", arg the
\* time of a scalar call, times its tbefore (<<>> for None) or the list of a
\* batch call as it was passed; num / den is the estimate returned.
Estimate(mode, arg, times, r) ==
    [NoCall EXCEPT !.op = "estimateTime", !.mode = mode, !.arg = arg,
                   !.times = times, !.exc = r.exc, !.code = r.code,
                   !.loads = r.loads, !.num = r.num, !.den = r.den]

\* The inputs the model draws.
Keys == (0 - (MaxBlobs + 2)) .. (MaxBlobs + 1)
KeyKinds == {"int", "slice", "other"}
Times(a) == (a.tmin - 1) .. (a.tmax + a.dt + 1)
Flags == {0, 1}
Warnings == 0 .. 3
ValidTimes(a) == {t \in Times(a) : ~OutsideBaseline(a, t)}
\* Lists of times: every ascending list of up to MaxBatch times, and every
\* pair of times in either order.
RECURSIVE Ascending(_, _)
Ascending(T, n) ==
    IF n = 0 THEN {<<>>}
    ELSE UNION {{Append(l, x) : x \in {y \in T : l = <<>> \/ l[Len(l)] < y}} :
                  l \in Ascending(T, n - 1)}
Batches(T) ==
    UNION {Ascending(T, n) : n \in 0 .. MaxBatch} \cup {<<x, y>> : x \in T, y \in T}
\* Lists of times for the estimator: of up to two times, in any order.
TimeLists(T) == {<<>>} \cup {<<x>> : x \in T} \cup {<<x, y>> : x \in T, y \in T}
\* tbefore: None, or a time
TBefores(a) == {<<>>} \cup {<<x>> : x \in ValidTimes(a)}

Init ==
    /\ \E d \in 1 .. MaxDt, n \in 0 .. MaxBlobs, k0 \in Flags :
         \E iv \in d .. MaxInterval :
           \E tt \in TrueTimes(d, iv, n), c \in SUBSET (0 .. n - 1) :
             /\ Cardinality(c) <= 1
             /\ file = [filesize |-> SeekFirst + n * SeekBlob + Slack,
                        seek_first |-> SeekFirst, seek_blob |-> SeekBlob,
                        dt |-> d, interval |-> iv, keep0 |-> k0,
                        trueTime |-> tt, corrupt |-> c]
    /\ sa = NoArchive
    /\ sim = reb_create_simulation
    /\ gen = NoGen
    /\ last = NoCall

Impure == [gen EXCEPT !.pure = FALSE]

\* No call is in progress: the caller has taken the result of the last one.
Idle == last.op = "none"

\* The caller takes the result of a call (or its exception) and goes on.
Return ==
    /\ last.op # "none"
    /\ last' = NoCall
    /\ UNCHANGED <<file, sa, sim, gen>>

\* sa = SimulationArchive(filename, additional_forces)
Open ==
    /\ sa.state = "none"
    /\ \E forces \in Flags, w \in Warnings :
         LET r == init(file, forces, w) IN
           /\ sa' = r.sa
           /\ sim' = r.sim
           /\ last' = [NoCall EXCEPT !.op = "open", !.arg = w, !.keep = forces,
                                   !.exc = r.exc]
    /\ UNCHANGED <<file, gen>>

\* sa[key]
GetItem ==
    /\ sa.state = "open"
    /\ Idle
    /\ \E kind \in KeyKinds, val \in Keys :
         LET r == getitem(sa, file, sim, [kind |-> kind, val |-> val]) IN
           /\ kind # "int" => val = 0
           /\ sim' = r.sim
           /\ last' = Call("getitem", val, kind, 1, r)
    /\ gen' = Impure
    /\ UNCHANGED <<file, sa>>

\* sa.loadFromBlobAndSynchronize(blob, keep_unsynchronized)
LoadFromBlobAndSynchronize ==
    /\ sa.state = "open"
    /\ Idle
    /\ \E blob \in Keys, keep \in Flags :
         LET r == loadFromBlobAndSynchronize(sa, file, sim, blob, keep) IN
           /\ sim' = r.sim
           /\ last' = Call("loadFromBlobAndSynchronize", blob, "int", keep, r)
    /\ gen' = Impure
    /\ UNCHANGED <<file, sa>>

\* sa[key] = value
SetItem ==
    /\ sa.state = "open"
    /\ Idle
    /\ \E val \in Keys :
         LET r == setitem(sa, file, sim, [kind |-> "int", val |-> val]) IN
           /\ sim' = r.sim
           /\ last' = Call("setitem", val, "int", 0, r)
    /\ gen' = Impure
    /\ UNCHANGED <<file, sa>>

\* del sa[key]
DelItem ==
    /\ sa.state = "open"
    /\ Idle
    /\ \E val \in Keys :
         LET r == delitem(sa, file, sim, [kind |-> "int", val |-> val]) IN
           /\ sim' = r.sim
           /\ last' = Call("delitem", val, "int", 0, r)
    /\ gen' = Impure
    /\ UNCHANGED <<file, sa>>

\* sa.getSimulation(t, mode, keep_unsynchronized); with an unknown mode the
\* flag is left at its default
GetSimulation ==
    /\ sa.state = "open"
    /\ Idle
    /\ \E t \in Times(sa), mode \in Modes \cup BadModes, keep \in Flags :
         LET r == getSimulation(sa, file, sim, t, mode, keep) IN
           /\ mode \in BadModes => keep = 1
           /\ sim' = r.sim
           /\ last' = Call("getSimulation", t, mode, keep, r)
    /\ gen' = Impure
    /\ UNCHANGED <<file, sa>>

\* g = sa.getSimulations(times, mode, keep_unsynchronized): a generator; its
\* body does not run before the first next(g).  pure records that the handle
\* is, at this point, as open left it.
GetSimulations(times, mode, keep) ==
    /\ sa.state = "open"
    /\ Idle
    /\ gen' = [state |-> "created", kind |-> "getSimulations",
               times |-> times, pos |-> 0,
               mode |-> mode, keep |-> keep,
               pure |-> sim = reb_create_simulation_from_binary(file)]
    /\ UNCHANGED <<file, sa, sim, last>>

\* next(g): times.sort() on the first call, then one getSimulation per call;
\* an exception, or the end of the list, finishes the generator
GenNext ==
    /\ sa.state = "open"
    /\ gen.kind = "getSimulations"
    /\ gen.state \in {"created", "running"}
    /\ LET times == IF gen.state = "created" THEN Sort(gen.times) ELSE gen.times
           pos == gen.pos + 1
       IN IF pos > Len(times)
          THEN /\ gen' = [gen EXCEPT !.state = "done", !.times = times]
               /\ last' = [NoCall EXCEPT !.op = "next", !.exc = "StopIteration"]
               /\ sim' = sim
          ELSE LET r == getSimulation(sa, file, sim, times[pos], gen.mode, gen.keep) IN
               /\ gen' = [gen EXCEPT !.state = IF r.exc = "none" THEN "running" ELSE "done",
                                     !.times = times, !.pos = pos]
               /\ last' = Call("next", times[pos], gen.mode, gen.keep, r)
               /\ sim' = r.sim
    /\ UNCHANGED <<file, sa>>

\* it = iter(sa), as in `for sim in sa:`: a generator; its body does not run
\* before the first next(it)
Iter ==
    /\ sa.state = "open"
    /\ Idle
    /\ gen' = [NoGen EXCEPT !.state = "created", !.kind = "iter", !.keep = 1,
                            !.pure = sim = reb_create_simulation_from_binary(file)]
    /\ UNCHANGED <<file, sa, sim, last>>

\* next(it): self[i] for the next i of range(len(self)), after which the
\* generator is suspended at its yield and any other call may run; an
\* exception, or the end of the range, finishes it
IterNext ==
    /\ sa.state = "open"
    /\ gen.kind = "iter"
    /\ gen.state \in {"created", "running"}
    /\ IF gen.pos >= len(sa)
       THEN /\ gen' = [gen EXCEPT !.state = "done"]
            /\ last' = [NoCall EXCEPT !.op = "next", !.exc = "StopIteration"]
            /\ sim' = sim
       ELSE LET r == getitem(sa, file, sim, [kind |-> "int", val |-> gen.pos]) IN
            /\ gen' = [gen EXCEPT !.state = IF r.exc = "none" THEN "running" ELSE "done",
                                  !.pos = gen.pos + 1]
            /\ last' = Call("next", gen.pos, "int", 1, r)
            /\ sim' = r.sim
    /\ UNCHANGED <<file, sa>>

\* The effect of an estimateTime call with outcome r.
Estimating(mode, arg, times, r) ==
    /\ sa' = r.sa
    /\ sim' = r.sim
    /\ last' = Estimate(mode, arg, times, r)

\* sa.estimateTime(t, tbefore) for a number t
EstimateTime ==
    /\ sa.state = "open"
    /\ Idle
    /\ \E t \in Times(sa), tbefore \in TBefores(sa) :
         Estimating("scalar", t, tbefore, estimateTime(sa, file, sim, t, tbefore))
    /\ gen' = Impure
    /\ UNCHANGED file

\* sa.estimateTime(times) for a list of times
EstimateTimes ==
    /\ sa.state = "open"
    /\ Idle
    /\ \E times \in TimeLists(Times(sa)) :
         Estimating("batch", 0, times, estimateTimes(sa, file, sim, times))
    /\ gen' = Impure
    /\ UNCHANGED file

\* Any sequence of calls on one archive.
Next ==
    \/ Open
    \/ GetItem
    \/ LoadFromBlobAndSynchronize
    \/ SetItem
    \/ DelItem
    \/ GetSimulation
    \/ Return

Spec == Init /\ [][Next]_vars

\* One generator on a freshly opened archive, consumed to its end: a batch
\* query in close mode for valid times, or an iteration over the archive,
\* between whose items indexed reads may run.
NextBatch ==
    \/ Open
    \/ ((gen.state = "none" \/ gen.kind = "iter") /\ Return)
    \/ (/\ gen.state = "none"
        /\ \E times \in Batches(ValidTimes(sa)), keep \in Flags :
              GetSimulations(times, "close", keep))
    \/ GenNext
    \/ (gen.state = "none" /\ Iter)
    \/ IterNext
    \/ (gen.kind = "iter" /\ gen.state = "running" /\ GetItem)

SpecBatch == Init /\ [][NextBatch]_vars

\* Any sequence of estimates and indexed reads on one archive.
NextEstimate ==
    \/ Open
    \/ GetItem
    \/ EstimateTime
    \/ EstimateTimes
    \/ Return

SpecEstimate == Init /\ [][NextEstimate]_vars

(***************************************************************************)
(* Properties.                                                             *)
(***************************************************************************)
Opened == sa.state = "open"

FreshSim == reb_create_simulation_from_binary(file)

StrictlyAscending(l) == \A i \in 1 .. Len(l) - 1 : l[i] < l[i + 1]

\* Same resulting time and same integrated state.
SameResult(s1, s2) == s1.t = s2.t /\ s1.traj = s2.traj /\ s1.rep = s2.rep

\* Equal in every field but the bookkeeping flags (the keep-unsynchronized
\* flag and the representation it selects).
EqualExceptFlags(s1, s2) ==
    [s1 EXCEPT !.keep_unsynchronized = 0, !.rep = ""]
      = [s2 EXCEPT !.keep_unsynchronized = 0, !.rep = ""]

\* A batch query in close mode on a fresh archive has just yielded a state.
BatchYielded ==
    /\ Opened
    /\ gen.kind = "getSimulations"
    /\ gen.state = "running" /\ gen.pure /\ gen.mode = "close"
    /\ StrictlyAscending(gen.times)
    /\ last.op = "next" /\ last.exc = "none"

\* The same time asked for alone on a freshly opened archive.
Alone == getSimulation(sa, file, FreshSim, gen.times[gen.pos], "close", gen.keep)

\* C1: for an ascending list of valid times asked of a freshly opened archive,
\* each state getSimulations(times, mode='close') yields is the state that
\* getSimulation(ti, mode='close') returns when called alone on a freshly
\* opened archive: the lone call returns too, with the same time and the same
\* integrated state.
C1_BatchEqualsAlone ==
    BatchYielded => (Alone.exc = "none" /\ SameResult(Alone.sim, sim))

\* C2: after a successful getSimulation(t, mode='exact', keep_unsynchronized=1)
\* the handle's keep-unsynchronized flag reads 0.
C2_ExactClearsFlag ==
    (/\ Opened /\ last.op = "getSimulation"
     /\ last.mode = "exact" /\ last.keep = 1 /\ last.exc = "none")
        => sim.keep_unsynchronized = 0

\* get(i) against getSimulation(t, mode='blob') from the handle get(i) left.
SameCheckpoint(t) ==
    \A k \in Flags :
        LET r == getSimulation(sa, file, sim, t, "blob", k)
        IN r.exc = "none" /\ r.loads = last.loads /\ EqualExceptFlags(r.sim, sim)

GotItem ==
    /\ Opened
    /\ last.op = "getitem" /\ last.mode = "int" /\ last.exc = "none"
    /\ last.arg \in 0 .. sa.Nblob - 1

\* C3 (as stated): for every i in [0, Nblob), get(i) and
\* getSimulation(tmin + interval*i, mode='blob') load the same checkpoint and
\* leave handles equal in every field but the bookkeeping flags.
C3_Original == GotItem => SameCheckpoint(sa.tmin + sa.interval * last.arg)

\* C3 (amended): for every i in [0, Nblob), get(i) and
\* getSimulation(tmin + interval*i + dt, mode='blob') load the same checkpoint
\* and leave handles equal in every field but the bookkeeping flags.
C3_GetEqualsBlobMode ==
    GotItem => SameCheckpoint(sa.tmin + sa.interval * last.arg + sa.dt)

\* C3 witness: get(i) has loaded a checkpoint other than the first.
C3_Witness ==
    /\ GotItem /\ last.arg >= 1 /\ last.loads = <<last.arg>>
    /\ sim.t = file.trueTime[last.arg]

\* C4: for every time t in [tmin, tmax + dt], the checkpoint getBlobJustBefore
\* chooses, if the file holds it, was written at a true time <= t, although
\* the true time may be up to one step away from the nominal time; and a
\* close or exact reconstruction that reloads starts integrating from a time
\* <= t.
C4_CheckpointNotAfter ==
    /\ (Opened /\ Idle) =>
         \A t \in ValidTimes(sa) :
            LET b == getBlobJustBefore(sa, t)
            IN (b.bi < NRecords(file)) => file.trueTime[b.bi] <= t
    /\ (/\ last.op = "getSimulation" /\ last.mode \in {"close", "exact"}
        /\ last.exc = "none" /\ last.loads # <<>>)
         => last.integ[1].t <= last.arg

\* C4 witness: a reconstruction reloaded a checkpoint written one step after
\* its nominal time, at exactly the requested time.
C4_Witness ==
    /\ Opened
    /\ last.op = "getSimulation" /\ last.mode \in {"close", "exact"}
    /\ last.exc = "none" /\ last.loads # <<>>
    /\ last.integ[1].t = last.arg
    /\ file.trueTime[last.loads[1]] = sa.interval * last.loads[1] + sa.dt

\* C5: with a valid mode, getSimulation fails with RangeError for every
\* t < tmin and every t > tmax + dt, before any load or integration, and
\* leaves the handle unchanged.
C5_RangeError ==
    (Opened /\ Idle) =>
        \A t \in Times(sa), mode \in Modes, k \in Flags :
            (t < sa.tmin \/ t > sa.tmax + sa.dt) =>
                LET r == getSimulation(sa, file, sim, t, mode, k)
                IN /\ r.exc = "RangeError"
                   /\ r.loads = <<>> /\ ~r.synced /\ r.integ = <<>>
                   /\ r.sim = sim

\* C5 witness: a call for a time below tmin failed on a handle already used.
C5_Witness ==
    /\ Opened
    /\ last.op = "getSimulation" /\ last.mode \in Modes
    /\ last.arg < sa.tmin /\ last.exc = "RangeError"
    /\ sim.t > 0

\* C6: get(i) loads checkpoint i for 0 <= i < Nblob and checkpoint i + Nblob
\* for -Nblob <= i < 0, and for every other integer fails with RangeError
\* without passing an index outside [0, Nblob) to the load primitive.
C6_IndexContract ==
    (Opened /\ last.op = "getitem" /\ last.mode = "int") =>
        /\ (0 <= last.arg /\ last.arg < sa.Nblob) => last.loads = <<last.arg>>
        /\ (0 - sa.Nblob <= last.arg /\ last.arg < 0)
              => last.loads = <<last.arg + sa.Nblob>>
        /\ (last.arg >= sa.Nblob \/ last.arg < 0 - sa.Nblob)
              => (last.exc = "RangeError" /\ last.loads = <<>>)

\* C7: item assignment and item deletion both fail with ReadOnlyError.
C7_ReadOnly ==
    (Opened /\ last.op \in {"setitem", "delitem"}) => last.exc = "ReadOnlyError"

\* C8: with a mode outside {blob, close, exact}, getSimulation fails with
\* ConfigError for every t, in range or not, before any time resolution, load
\* or integration, and leaves the handle unchanged.
C8_ConfigError ==
    (Opened /\ Idle) =>
        \A t \in Times(sa), mode \in BadModes, k \in Flags :
            LET r == getSimulation(sa, file, sim, t, mode, k)
            IN /\ r.exc = "ConfigError"
               /\ r.loads = <<>> /\ ~r.synced /\ r.integ = <<>>
               /\ r.sim = sim

\* C8 witness: a call with an unknown mode and a time outside the baseline
\* failed with ConfigError.
C8_Witness ==
    /\ Opened
    /\ last.op = "getSimulation" /\ last.mode \in BadModes
    /\ OutsideBaseline(sa, last.arg) /\ last.exc = "ConfigError"

\* C9: when the load primitive returns a nonzero status, loadBlob, get and
\* getSimulation fail with LoadError carrying that status, and neither
\* synchronize nor the integration primitive is called afterwards.
C9_LoadError ==
    (/\ Opened
     /\ last.op \in {"loadFromBlobAndSynchronize", "getitem", "getSimulation"}
     /\ last.loads # <<>>
     /\ reb_load_status(file, last.loads[1]) # 0)
        => /\ last.exc = "LoadError"
           /\ last.code = reb_load_status(file, last.loads[1])
           /\ ~last.synced /\ last.integ = <<>>

\* C9 witness: an exact reconstruction hit a corrupt record of the file.
C9_Witness ==
    /\ Opened
    /\ last.op = "getSimulation" /\ last.mode = "exact"
    /\ last.loads # <<>> /\ last.loads[1] \in file.corrupt
    /\ last.exc = "LoadError"

\* C10: a successful getSimulation(t, mode='exact') returns the handle with
\* its time equal to t, whatever the handle held before.
C10_ExactTime ==
    (Opened /\ last.op = "getSimulation" /\ last.mode = "exact" /\ last.exc = "none")
        => sim.t = last.arg

\* C10 witness: an exact reconstruction continued from the held handle and
\* ended between two steps.
C10_Witness ==
    /\ Opened
    /\ last.op = "getSimulation" /\ last.mode = "exact" /\ last.exc = "none"
    /\ last.loads = <<>> /\ last.integ # <<>> /\ last.integ[1].t > 0
    /\ sim.t = last.arg /\ sim.t % sim.dt # 0

\* A getSimulation call in the given modes has just returned.
Reconstructed(modes) ==
    /\ Opened
    /\ last.op = "getSimulation" /\ last.mode \in modes /\ last.exc = "none"

\* C11: a successful getSimulation(t, mode='close') returns the handle at a
\* time T with t <= T < t + dt, whatever the handle held before.
C11_CloseWithinOneStep ==
    Reconstructed({"close"}) => (last.arg <= sim.t /\ sim.t < last.arg + sa.dt)

\* C11 witness: a close reconstruction continued from a handle that was
\* between two steps and went past the requested time.
C11_Witness ==
    /\ Reconstructed({"close"})
    /\ last.loads = <<>> /\ last.integ # <<>>
    /\ last.integ[1].t % sa.dt # 0
    /\ sim.t > last.arg

\* The scalar estimate for t, without tbefore, from the current state.
ScalarEstimate(t) == estimateTime(sa, file, sim, t, <<>>)

\* An estimateTime call of the given kind has just ended.
EstimateEnded(mode) == Opened /\ last.op = "estimateTime" /\ last.mode = mode

\* C12: for any two valid times t1 and t2, in either order and possibly
\* equal, whenever the two scalar estimates return, estimateTime([t1, t2])
\* returns a value <= estimateTime(t1) + estimateTime(t2).
C12_BatchAtMostSum ==
    (Opened /\ Idle) =>
        \A t1 \in ValidTimes(sa), t2 \in ValidTimes(sa) :
            LET e1 == ScalarEstimate(t1)
                e2 == ScalarEstimate(t2)
                b == estimateTimes(sa, file, sim, <<t1, t2>>)
            IN (e1.exc = "none" /\ e2.exc = "none") =>
                 /\ b.exc = "none"
                 /\ b.den = e1.den /\ b.den = e2.den /\ b.den > 0
                 /\ b.num <= e1.num + e2.num

\* C12 witness: a batch estimate for two times, passed in descending order,
\* came out strictly below the sum of the two scalar estimates.
C12_Witness ==
    /\ EstimateEnded("batch") /\ last.exc = "none"
    /\ Len(last.times) = 2 /\ last.times[1] > last.times[2]
    /\ ScalarEstimate(last.times[1]).exc = "none"
    /\ ScalarEstimate(last.times[2]).exc = "none"
    /\ last.num < ScalarEstimate(last.times[1]).num + ScalarEstimate(last.times[2]).num

\* C13: on every opened archive and for every t in [tmin, tmax + dt],
\* estimateTime(t) without tbefore returns, and returns a value >= 0.
C13_EstimateNonNegative ==
    (Opened /\ Idle) =>
        \A t \in ValidTimes(sa) :
            LET e == ScalarEstimate(t)
            IN e.exc = "none" /\ e.den > 0 /\ e.num >= 0

\* C14: once the speed is memoized, no estimateTime call, scalar or batch,
\* loads a checkpoint or changes the memoized value; and every scalar
\* estimate that returns or fails with RangeError, alone or inside a batch,
\* leaves the speed memoized, having loaded at most the final checkpoint.
C14_SpeedComputedOnce ==
    /\ (Opened /\ Idle /\ sa.speed.known) =>
          /\ \A t \in Times(sa), tbefore \in TBefores(sa) :
                LET e == estimateTime(sa, file, sim, t, tbefore)
                IN e.loads = <<>> /\ e.sa.speed = sa.speed
          /\ \A times \in TimeLists(Times(sa)) :
                LET e == estimateTimes(sa, file, sim, times)
                IN e.loads = <<>> /\ e.sa.speed = sa.speed
    /\ (/\ Opened /\ last.op = "estimateTime"
        /\ last.exc \in {"none", "RangeError"}
        /\ (last.mode = "batch" => last.times # <<>>))
          => /\ sa.speed.known
             /\ last.loads \in {<<>>, <<sa.Nblob - 1>>}

\* C14 witness: the first estimate on an archive failed with RangeError after
\* it had loaded the final checkpoint and memoized the speed.
C14_Witness ==
    /\ EstimateEnded("scalar") /\ last.exc = "RangeError"
    /\ last.loads = <<sa.Nblob - 1>>
    /\ sa.speed.known /\ sa.speed.t = file.trueTime[sa.Nblob - 1]

\* C15: open fails with FormatError whenever bit 0 of the warning bitmask is
\* set, with none of the archive's scalars computed, and succeeds for every
\* bitmask with bit 0 clear, whatever other bits are set.
C15_FormatError ==
    (last.op = "open") =>
        /\ (last.arg % 2 = 1) =>
              /\ last.exc = "FormatError"
              /\ sa.state = "failed"
              /\ [sa EXCEPT !.state = "none", !.additional_forces = 0] = NoArchive
        /\ (last.arg % 2 = 0) => (last.exc = "none" /\ sa.state = "open")

\* The three conditions of the reuse test, on the current handle.
ReuseConditions(t, bt) ==
    sim.t < t /\ bt - sa.dt < sim.t /\ sim.keep_unsynchronized = 1

\* C16: in close and exact mode, for a valid time, getSimulation calls the
\* load primitive for the resolved index exactly when the handle's time is
\* not < t, or blobTime - dt is not < the handle's time, or the handle's
\* keep-unsynchronized flag is not 1; when all three hold it loads nothing
\* and integrates from the handle as it is.
C16_ReuseExactlyWhen ==
    (Opened /\ Idle) =>
        \A t \in ValidTimes(sa), mode \in {"close", "exact"}, k \in Flags :
            LET r == getSimulation(sa, file, sim, t, mode, k)
                b == getBlobJustBefore(sa, t)
            IN IF ReuseConditions(t, b.bt)
               THEN r.loads = <<>> /\ r.exc = "none" /\ r.integ[1].t = sim.t
               ELSE r.loads = <<b.bi>>
                    /\ (r.exc = "none" => r.integ[1].t = file.trueTime[b.bi])

\* C16 witness: an exact reconstruction reloaded a checkpoint although the
\* handle's time was below the requested time, the flag being 0.
C16_Witness ==
    /\ Reconstructed({"exact"})
    /\ last.loads # <<>> /\ last.loads[1] >= 1
    /\ last.integ[1].t < last.arg
    /\ last.keep = 0

\* C17: every call of the integration primitive is made with the auto-write
\* target cleared and, when a forces callback was given at open, with that
\* callback attached, also right after a reload.
C17_IntegrateDetached ==
    Opened =>
        \A i \in 1 .. Len(last.integ) :
            /\ last.integ[i].simulationarchive_filename = 0
            /\ sa.additional_forces # 0
                  => last.integ[i].additional_forces = sa.additional_forces

\* C17 witness: on an archive opened with a forces callback, an integration
\* started right after a reload.
C17_Witness ==
    /\ Reconstructed({"close", "exact"})
    /\ sa.additional_forces # 0
    /\ last.loads # <<>> /\ last.integ # <<>>
    /\ last.integ[1].t < sim.t

\* C18: for every time t in [tmin, tmax + dt], the index getBlobJustBefore
\* returns lies in [0, Nblob).
C18_IndexInFile ==
    (Opened /\ Idle) =>
        \A t \in ValidTimes(sa) :
            LET b == getBlobJustBefore(sa, t)
            IN b.exc = "none" /\ 0 <= b.bi /\ b.bi < sa.Nblob

\* The same call made on a freshly opened archive.
OnFresh == getSimulation(sa, file, FreshSim, last.arg, last.mode, last.keep)

\* C19: after any sequence of earlier operations, a getSimulation call that
\* returns leaves the handle at the time and in the integrated state the same
\* call leaves when it returns on a freshly opened archive.
C19_HistoryIndependent ==
    (Reconstructed(Modes) /\ OnFresh.exc = "none") => SameResult(OnFresh.sim, sim)

\* C20: once the speed is memoized, every estimateTime call, scalar or batch,
\* returning or failing, leaves the handle and the archive's scalars as they
\* were; and an estimateTime call that loaded nothing left the handle as it
\* was.
C20_EstimateFrame ==
    /\ (Opened /\ Idle /\ sa.speed.known) =>
          /\ \A t \in Times(sa), tbefore \in TBefores(sa) :
                LET e == estimateTime(sa, file, sim, t, tbefore)
                IN e.sim = sim /\ e.sa = sa
          /\ \A times \in TimeLists(Times(sa)) :
                LET e == estimateTimes(sa, file, sim, times)
                IN e.sim = sim /\ e.sa = sa
    /\ (Opened /\ Idle /\ ~sa.speed.known) =>
          \A t \in Times(sa) :
              LET e == estimateTime(sa, file, sim, t, <<>>)
              IN /\ [e.sa EXCEPT !.speed = NoSpeed] = sa
                 /\ e.sim # sim => e.loads = <<sa.Nblob - 1>>

\* C20 witness: with the speed memoized and the handle since moved to another
\* checkpoint, a batch estimate returned and the handle is still there.
C20_Witness ==
    /\ EstimateEnded("batch") /\ last.exc = "none" /\ Len(last.times) = 2
    /\ sa.speed.known /\ last.loads = <<>>
    /\ sim.t # sa.speed.t

====
